---- MODULE Spec2Model ----
(***************************************************************************)
(* Model of the token-transfer service of src/main.py: the two fixed-amount *)
(* endpoints winner_tokens and draw_tokens, the request pipeline they run   *)
(* (checksum the recipient, read the balance, read the transaction count,   *)
(* build, sign, broadcast) and the blockchain node they talk to.            *)
(*                                                                          *)
(* Amounts and balances are counted in whole tokens (10^18 smallest units): *)
(* both fixed amounts are multiples of 10^18, so comparing whole tokens     *)
(* decides sender_balance < amount_wei exactly as the code does.            *)
(* Addresses are tuples of one-character strings, AddrLen hex digits long   *)
(* instead of 40.                                                           *)
(***************************************************************************)
EXTENDS Integers, Sequences, FiniteSets, TLC

\* ------------------------------------------------------------------ bounds
MaxRequests == 2      \* requests the service receives in one behaviour
MaxExternalTx == 1    \* transaction count up to which other holders of the key send
MaxBalance == 5       \* largest initial token balance of the sender at the node
AddrLen == 2          \* hex digits of an address (40 on the real chain)

\* ------------------------------------------------------- program constants
WINNER_AMOUNT == 4    \* int(4 * (10 ** 18)), in units of 10^18
DRAW_AMOUNT == 2      \* int(2 * (10 ** 18)), in units of 10^18
CHAIN_ID == 56
GAS == 200000
GAS_PRICE_GWEI == 5

SENDER_ADDRESS == "sender"
Routes == {"winner_tokens", "draw_tokens"}

\* -------------------------------------------------- to_checksum_address
LowerHex == {"a", "b", "1"}
UpperHex == {"A", "B"}
HexDigits == LowerHex \cup UpperHex

Lower(c) == IF c = "A" THEN "a" ELSE IF c = "B" THEN "b" ELSE c
Upper(c) == IF c = "a" THEN "A" ELSE IF c = "b" THEN "B" ELSE c

\* the recipient strings a caller may send
LowerBody == [i \in 1..AddrLen |-> IF i % 2 = 1 THEN "a" ELSE "b"]
UpperBody == [i \in 1..AddrLen |-> IF i % 2 = 1 THEN "B" ELSE "1"]
LowerPrefixed == <<"0", "x">> \o LowerBody                       \* well-formed
UpperUnprefixed == UpperBody                                      \* well-formed
TooShort == <<"0", "x">> \o SubSeq(LowerBody, 1, AddrLen - 1)     \* malformed
NotHex == [i \in 1..AddrLen |-> "n"]                              \* malformed
Recipients == {LowerPrefixed, UpperUnprefixed, TooShort, NotHex}

Is0xPrefixed(s) == Len(s) >= 2 /\ s[1] = "0" /\ s[2] = "x"
Remove0xPrefix(s) == IF Is0xPrefixed(s) THEN SubSeq(s, 3, Len(s)) ELSE s

\* is_address on the normalised string: exactly AddrLen hex digits
IsWellFormed(s) ==
  LET body == Remove0xPrefix(s)
  IN  Len(body) = AddrLen /\ \A i \in 1..Len(body) : body[i] \in HexDigits

\* to_normalized_address: lower-case hex digits, without the prefix
Normalized(s) ==
  LET body == Remove0xPrefix(s)
  IN  [i \in 1..Len(body) |-> Lower(body[i])]

\* stands for "nibble i of keccak(normalised address) is greater than 7"
HashNibbleHigh(n, i) ==
  (i + Cardinality({j \in 1..Len(n) : n[j] = "a"})) % 2 = 1

\* to_checksum_address of a well-formed input: 0x + hash-dependent casing
ToChecksumAddress(s) ==
  LET n == Normalized(s)
  IN  <<"0", "x">> \o
      [i \in 1..Len(n) |-> IF HashNibbleHigh(n, i) THEN Upper(n[i]) ELSE n[i]]


\* ---------------------------------------------------------------- values
NoTxn == [to |-> <<>>, value |-> -1, chainId |-> -1, gas |-> -1,
          gasPrice |-> -1, nonce |-> -1]
NoSigned == [tx |-> NoTxn, from |-> ""]
NoExc == [type |-> "", text |-> ""]
NoResponse == [code |-> 0, detail |-> "", tx_hash |-> <<>>]

\* a request (the handler's arguments, locals and position) that is not running
NoReq ==
  [id |-> 0, route |-> "", recipient |-> <<>>, amount |-> 0, pc |-> "Idle",
   recipient_address |-> <<>>, amount_wei |-> -1, sender_balance |-> -1,
   nonce |-> -1, txn |-> NoTxn, signed_txn |-> NoSigned,
   trace |-> <<>>, arrived_at |-> 0, balance_ret |-> -1, txcount_ret |-> -1,
   sent |-> <<>>,
   exc |-> NoExc, response |-> NoResponse]

\* results of a call to the node, as the handler sees them
Returned(v) == [ok |-> TRUE, val |-> v, err |-> ""]
Raised(reason) == [ok |-> FALSE, val |-> -1, err |-> reason]

HTTPException(status_code, detail) ==
  [type |-> "HTTPException", text |-> detail, status_code |-> status_code]
PyException(type, text) == [type |-> type, text |-> text, status_code |-> 0]

\* what the caller receives when an HTTPException leaves the handler
ErrorResponse(h) == [code |-> h.status_code, detail |-> h.detail, tx_hash |-> <<>>]

TxHash(signed) == <<"hash", signed.tx.nonce, signed.tx.to, signed.tx.value>>

\* ------------------------------------------------------------------ state
VARIABLES
  env,            \* the environment the process was started in
  serving,        \* "serving" when the module loaded, "failed" when it raised
  node_balance,   \* the sender's token balance at the node (balanceOf)
  node_txcount,   \* the sender's transaction count at the latest block
  pool,           \* transactions the node has accepted and not yet mined
  mined,          \* transactions included in a block
  waiting,        \* requests sent by callers whose handler has not started yet
  running,        \* the requests whose handler has started and not returned
  done,           \* the finished requests, in the order they were answered
  health          \* the answers of GET /health

\* ------------------------------------------------- the handler, step by step
\* `except Exception as e: raise HTTPException(500, "Internal server error.")`
\* HTTPException derives from Exception, so the clause catches every type.
ExceptClauseLeaky(e) == [status_code |-> 500, detail |-> e.text]
ExceptClauseClientError(e) ==
  IF e.type = "ValueError"
  THEN [status_code |-> 400, detail |-> "Invalid address."]
  ELSE [status_code |-> 500, detail |-> "Internal server error."]
ExceptClause(e) == [status_code |-> 500, detail |-> "Internal server error."]

\* an exception raised inside the try block ends the request
Raise(r, e) ==
  [r EXCEPT !.pc = "Failed",
            !.exc = [type |-> e.type, text |-> e.text],
            !.response = ErrorResponse(ExceptClause(e))]

AmountWeiFromRequest(r) == r.amount
AmountWei(r) == IF r.route = "winner_tokens" THEN WINNER_AMOUNT ELSE DRAW_AMOUNT

\* recipient_address = w3.to_checksum_address(data.recipient); amount_wei = ...
ValidatingUnchecked(r) ==
  [r EXCEPT !.recipient_address = ToChecksumAddress(r.recipient),
            !.amount_wei = AmountWei(r),
            !.pc = "BalanceChecking"]
ValidatingSkipBalance(r) ==
  IF IsWellFormed(r.recipient)
  THEN [r EXCEPT !.recipient_address = ToChecksumAddress(r.recipient),
                 !.amount_wei = AmountWei(r),
                 !.pc = "NonceFetching"]
  ELSE Raise(r, PyException("ValueError", "Unknown format"))
Validating(r) ==
  IF IsWellFormed(r.recipient)
  THEN [r EXCEPT !.recipient_address = ToChecksumAddress(r.recipient),
                 !.amount_wei = AmountWei(r),
                 !.pc = "BalanceChecking"]
  ELSE Raise(r, PyException("ValueError", "Unknown format"))

\* sender_balance = balanceOf(SENDER_ADDRESS).call(); the comparison with amount_wei
BalanceCheckingNoCheck(r, res) ==
  IF ~res.ok
  THEN Raise(r, PyException("BalanceReadError", res.err))
  ELSE [r EXCEPT !.sender_balance = res.val, !.pc = "NonceFetching"]
BalanceCheckingReserving(r, res) ==
  IF ~res.ok
  THEN Raise(r, PyException("BalanceReadError", res.err))
  ELSE LET r2 == [r EXCEPT !.sender_balance = res.val]
           pending == {t \in pool : t.from = SENDER_ADDRESS}
           reserved == IF pending = {} THEN 0 ELSE (CHOOSE t \in pending : TRUE).tx.value
       IN  IF r2.sender_balance - reserved < r2.amount_wei
           THEN Raise(r2, HTTPException(400, "Insufficient token balance."))
           ELSE [r2 EXCEPT !.pc = "NonceFetching"]
BalanceChecking(r, res) ==
  IF ~res.ok
  THEN Raise(r, PyException("BalanceReadError", res.err))
  ELSE LET r2 == [r EXCEPT !.sender_balance = res.val]
       IN  IF r2.sender_balance < r2.amount_wei
           THEN Raise(r2, HTTPException(400, "Insufficient token balance."))
           ELSE [r2 EXCEPT !.pc = "NonceFetching"]

\* nonce = w3.eth.get_transaction_count(SENDER_ADDRESS)
NonceFetchingStale(r, res) ==
  IF ~res.ok
  THEN Raise(r, PyException("NonceReadError", res.err))
  ELSE [r EXCEPT !.nonce = 1, !.pc = "Building"]
NonceFetchingSwallow(r, res) ==
  IF ~res.ok
  THEN [r EXCEPT !.nonce = 0, !.pc = "Building"]
  ELSE [r EXCEPT !.nonce = res.val, !.pc = "Building"]
NonceFetchingLocalIncrement(r, res) ==
  IF ~res.ok
  THEN Raise(r, PyException("NonceReadError", res.err))
  ELSE [r EXCEPT !.nonce = res.val + Cardinality({t \in pool : t.from = SENDER_ADDRESS}),
                 !.pc = "Building"]
NonceFetchingSentCounter(r, res) ==
  IF ~res.ok
  THEN Raise(r, PyException("NonceReadError", res.err))
  ELSE [r EXCEPT !.nonce = res.val + Cardinality({i \in 1..Len(done) : done[i].sent # <<>>}),
                 !.pc = "Building"]
NonceFetching(r, res) ==
  IF ~res.ok
  THEN Raise(r, PyException("NonceReadError", res.err))
  ELSE [r EXCEPT !.nonce = res.val, !.pc = "Building"]

\* txn = transfer(recipient_address, amount_wei).build_transaction({...})
BuildingNextNonce(r) ==
  [r EXCEPT !.txn = [to |-> r.recipient_address, value |-> r.amount_wei,
                     chainId |-> CHAIN_ID, gas |-> GAS,
                     gasPrice |-> GAS_PRICE_GWEI, nonce |-> r.nonce + 1],
            !.pc = "Signing"]
Building(r) ==
  [r EXCEPT !.txn = [to |-> r.recipient_address, value |-> r.amount_wei,
                     chainId |-> CHAIN_ID, gas |-> GAS,
                     gasPrice |-> GAS_PRICE_GWEI, nonce |-> r.nonce],
            !.pc = "Signing"]

\* signed_txn = w3.eth.account.sign_transaction(txn, PRIVATE_KEY)
Signing(r, ok) ==
  IF ~ok
  THEN Raise(r, PyException("SigningError", "cannot sign"))
  ELSE [r EXCEPT !.signed_txn = [tx |-> r.txn, from |-> SENDER_ADDRESS],
                 !.pc = "Broadcasting"]

\* tx_hash = w3.eth.send_raw_transaction(signed_txn.raw_transaction); return
BroadcastingRetry(r, res) ==
  IF ~res.ok
  THEN IF r.sent = <<>> THEN r
       ELSE Raise(r, PyException("BroadcastError", res.err))
  ELSE [r EXCEPT !.pc = "Succeeded",
                 !.response = [code |-> 200, detail |-> "success",
                               tx_hash |-> TxHash(r.signed_txn)]]
BroadcastingWrongHash(r, res) ==
  IF ~res.ok
  THEN Raise(r, PyException("BroadcastError", res.err))
  ELSE [r EXCEPT !.pc = "Succeeded",
                 !.response = [code |-> 200, detail |-> "success",
                               tx_hash |-> TxHash(NoSigned)]]
Broadcasting(r, res) ==
  IF ~res.ok
  THEN Raise(r, PyException("BroadcastError", res.err))
  ELSE [r EXCEPT !.pc = "Succeeded",
                 !.response = [code |-> 200, detail |-> "success",
                               tx_hash |-> TxHash(r.signed_txn)]]

\* ---------------------------------------------------------------- startup
\* the process environment and the node at the time the module is loaded
Environments ==
  [PRIVATE_KEY : {"", "key"},
   TOKEN_ADDRESS : {<<>>, LowerPrefixed, NotHex},
   connected : {"true", "false", "raise"}]

\* module level code: the two checks that raise ValueError, the connection
\* check, and to_checksum_address(TOKEN_ADDRESS)
StartupNoConnectionCheck(e) ==
  IF e.PRIVATE_KEY = "" \/ e.TOKEN_ADDRESS = <<>> THEN "failed"
  ELSE IF ~IsWellFormed(e.TOKEN_ADDRESS) THEN "failed"
  ELSE "serving"
Startup(e) ==
  IF e.PRIVATE_KEY = "" \/ e.TOKEN_ADDRESS = <<>> THEN "failed"
  ELSE IF e.connected # "true" THEN "failed"
  ELSE IF ~IsWellFormed(e.TOKEN_ADDRESS) THEN "failed"
  ELSE "serving"

\* ------------------------------------------------------------ health_check
HealthResponse(keys, status, rpc_connected, error) ==
  [raised |-> FALSE, keys |-> keys, status |-> status,
   rpc_connected |-> rpc_connected, error |-> error]

\* try: if w3.is_connected(): ... else: ... except Exception as e: ...
HealthCheckNoCatch(connected) ==
  IF connected = "raise"
  THEN [raised |-> TRUE, keys |-> {}, status |-> "", rpc_connected |-> FALSE,
        error |-> "connection check failed"]
  ELSE IF connected = "true"
  THEN HealthResponse({"status", "rpc_connected"}, "healthy", TRUE, "")
  ELSE HealthResponse({"status", "rpc_connected"}, "unhealthy", FALSE, "")
HealthCheck(connected) ==
  IF connected = "raise"
  THEN HealthResponse({"status", "error"}, "unhealthy", FALSE, "connection check failed")
  ELSE IF connected = "true"
  THEN HealthResponse({"status", "rpc_connected"}, "healthy", TRUE, "")
  ELSE HealthResponse({"status", "rpc_connected"}, "unhealthy", FALSE, "")

nodeVars == <<node_balance, node_txcount, pool, mined>>
appVars == <<env, serving>>
vars == <<env, serving, node_balance, node_txcount, pool, mined,
          waiting, running, done, health>>

Init ==
  /\ env \in Environments
  /\ serving = Startup(env)
  /\ node_balance \in {DRAW_AMOUNT - 1, MaxBalance}
  /\ node_txcount = 0
  /\ pool = {}
  /\ mined = {}
  /\ waiting = <<>>
  /\ running = {}
  /\ done = <<>>
  /\ health = <<>>

\* the request the event loop is running, or NoReq
cur == IF running = {} THEN NoReq ELSE CHOOSE r \in running : TRUE

\* requests received so far, answered or not
Received == Len(done) + Cardinality(running) + Len(waiting) + Len(health)

\* what a mock node and a tracer would record of the step just executed
Recorded(r, step, ok) == [r EXCEPT !.trace = Append(@, [step |-> step, ok |-> ok])]

\* the handler moves on, or its response is delivered and the loop is free again
Continue(r, r2) ==
  IF r2.pc \in {"Succeeded", "Failed"}
  THEN running' = running \ {r} /\ done' = Append(done, r2)
  ELSE running' = (running \ {r}) \cup {r2} /\ done' = done

\* --------------------------------------------------------------- the node
NodeFault == Raised("connection error")

\* the node's answer to send_raw_transaction and the pool it leaves behind
PoolEntry(r) == [tx |-> r.signed_txn.tx, from |-> r.signed_txn.from, req |-> r.id]
SameNoncePending(r) ==
  \E t \in pool : t.from = r.signed_txn.from /\ t.tx.nonce = r.signed_txn.tx.nonce

SendOutcomes(r) ==
  IF r.signed_txn.tx.nonce < node_txcount
  THEN {[res |-> Raised("nonce too low"), pool |-> pool],
        [res |-> NodeFault, pool |-> pool]}
  ELSE IF SameNoncePending(r)
  THEN {[res |-> Raised("replacement transaction underpriced"), pool |-> pool],
        [res |-> NodeFault, pool |-> pool]}
  ELSE {[res |-> Returned(0), pool |-> pool \cup {PoolEntry(r)}],
        [res |-> Raised("read timeout"), pool |-> pool \cup {PoolEntry(r)}],
        [res |-> NodeFault, pool |-> pool]}

\* a pending transaction with the next nonce is included in a block
Mine ==
  \E t \in pool :
    /\ t.tx.nonce = node_txcount
    /\ node_txcount' = node_txcount + 1
    /\ node_balance' = IF node_balance >= t.tx.value
                       THEN node_balance - t.tx.value ELSE node_balance
    /\ pool' = pool \ {t}
    /\ mined' = mined \cup {t}
    /\ UNCHANGED <<appVars, waiting, running, done, health>>

\* a transaction signed with the same key by another instance of the service
\* is included in a block
ExternalTx ==
  /\ serving = "serving"
  /\ node_txcount < MaxExternalTx
  /\ node_txcount' = node_txcount + 1
  /\ UNCHANGED <<appVars, node_balance, pool, mined, waiting, running, done, health>>

\* a pending transaction leaves the pool of the node that answers (evicted,
\* expired, or the endpoint's next backend never saw it)
DropPending ==
  \E t \in pool :
    /\ pool' = pool \ {t}
    /\ UNCHANGED <<appVars, node_balance, node_txcount, mined, waiting, running, done, health>>

\* ------------------------------------------------------------ the handlers
\* a caller sends a transfer request to the running service; it is in flight
\* from now until it is answered
Arrive ==
  /\ serving = "serving"
  /\ Received < MaxRequests
  /\ waiting' = Append(waiting, Len(done))
  /\ UNCHANGED <<appVars, nodeVars, running, done, health>>

\* the handlers are coroutines without any await, run by one event loop: a
\* handler is called only when no other handler is running
EventLoopFreeWithAwait == TRUE
EventLoopFree == running = {}

Receive(route, data) ==
  /\ waiting # <<>>
  /\ EventLoopFree
  /\ running' = running \cup
       {[NoReq EXCEPT !.id = Len(done) + Cardinality(running) + 1,
                      !.arrived_at = Head(waiting), !.route = route,
                      !.recipient = data.recipient, !.amount = data.amount,
                      !.pc = "Validating"]}
  /\ waiting' = Tail(waiting)
  /\ UNCHANGED <<appVars, nodeVars, done, health>>

\* the request bodies the callers send to each route
WinnerRequests ==
  { [recipient |-> LowerPrefixed, amount |-> 1],
    [recipient |-> TooShort, amount |-> 100] }
DrawRequests ==
  { [recipient |-> UpperUnprefixed, amount |-> 100],
    [recipient |-> NotHex, amount |-> 1] }
TransferRequest == WinnerRequests \cup DrawRequests

winner_tokens == \E data \in WinnerRequests : Receive("winner_tokens", data)
draw_tokens == \E data \in DrawRequests : Receive("draw_tokens", data)

DoValidating ==
  \E r \in running :
    /\ r.pc = "Validating"
    /\ Continue(r, Recorded(Validating(r), "to_checksum_address", IsWellFormed(r.recipient)))
    /\ UNCHANGED <<appVars, nodeVars, waiting, health>>

DoBalanceChecking ==
  \E r \in running :
    /\ r.pc = "BalanceChecking"
    /\ \E res \in {Returned(node_balance), NodeFault} :
         Continue(r, [Recorded(BalanceChecking(r, res), "balanceOf", res.ok)
                        EXCEPT !.balance_ret = res.val])
    /\ UNCHANGED <<appVars, nodeVars, waiting, health>>

DoNonceFetching ==
  \E r \in running :
    /\ r.pc = "NonceFetching"
    /\ \E res \in {Returned(node_txcount), NodeFault} :
         Continue(r, [Recorded(NonceFetching(r, res), "get_transaction_count", res.ok)
                        EXCEPT !.txcount_ret = res.val])
    /\ UNCHANGED <<appVars, nodeVars, waiting, health>>

DoBuilding ==
  \E r \in running :
    /\ r.pc = "Building"
    /\ Continue(r, Recorded(Building(r), "build_transaction", TRUE))
    /\ UNCHANGED <<appVars, nodeVars, waiting, health>>

DoSigning ==
  \E r \in running :
    /\ r.pc = "Signing"
    /\ \E ok \in BOOLEAN : Continue(r, Recorded(Signing(r, ok), "sign_transaction", ok))
    /\ UNCHANGED <<appVars, nodeVars, waiting, health>>

DoBroadcasting ==
  \E r \in running :
    /\ r.pc = "Broadcasting"
    /\ \E o \in SendOutcomes(r) :
         /\ pool' = o.pool
         /\ Continue(r, [Recorded(Broadcasting(r, o.res), "send_raw_transaction", o.res.ok)
                           EXCEPT !.sent = Append(@, r.signed_txn)])
    /\ UNCHANGED <<appVars, node_balance, node_txcount, mined, waiting, health>>

\* GET /health: one call of w3.is_connected(), which answers, or raises
health_check ==
  /\ serving = "serving"
  /\ Received < MaxRequests
  /\ EventLoopFree
  /\ \E connected \in {"true", "false", "raise"} :
       health' = Append(health, [connected |-> connected,
                                 calls |-> <<"is_connected">>,
                                 response |-> HealthCheck(connected)])
  /\ UNCHANGED <<appVars, nodeVars, waiting, running, done>>

Next ==
  \/ Arrive
  \/ winner_tokens
  \/ draw_tokens
  \/ DoValidating
  \/ DoBalanceChecking
  \/ DoNonceFetching
  \/ DoBuilding
  \/ DoSigning
  \/ DoBroadcasting
  \/ health_check
  \/ Mine
  \/ DropPending
  \/ ExternalTx

Spec == Init /\ [][Next]_vars

\* the finished requests (by position in done) and the running one (0)
Finished == 1..Len(done)
Requests == Finished \cup (IF running = {} THEN {} ELSE {0})
Req(i) == IF i = 0 THEN cur ELSE done[i]
NodeCalls == {"balanceOf", "get_transaction_count", "send_raw_transaction"}
Count(tr, name) == Cardinality({i \in 1..Len(tr) : tr[i].step = name})

TypeOK ==
  /\ node_balance \in 0..MaxBalance
  /\ node_txcount \in 0..(MaxRequests + MaxExternalTx)
  /\ Len(done) <= MaxRequests
  /\ serving \in {"serving", "failed"}
  /\ Received <= MaxRequests
  /\ \A r \in running :
       r.pc \in {"Validating", "BalanceChecking", "NonceFetching",
                 "Building", "Signing", "Broadcasting"}

\* ---------------------------------------------------------------- claims
GenericError == [code |-> 500, detail |-> "Internal server error.", tx_hash |-> <<>>]
InsufficientError == [code |-> 400, detail |-> "Insufficient token balance.", tx_hash |-> <<>>]
FixedAmount(r) == IF r.route = "winner_tokens" THEN 4 ELSE 2
BalanceTooLow(r) == r.sender_balance >= 0 /\ r.sender_balance < FixedAmount(r)
Malformed(r) == ~IsWellFormed(r.recipient)
Ran(r, step) == \E i \in 1..Len(r.trace) : r.trace[i].step = step
CallFailed(r, step) == \E i \in 1..Len(r.trace) : r.trace[i].step = step /\ ~r.trace[i].ok
NothingAcceptedFrom(r) == \A t \in pool \cup mined : t.req # r.id

\* C1: every request whose balance read is lower than the amount to transfer
\* is answered with HTTP 400 and detail "Insufficient token balance."
C1_InsufficientBalanceIs400 ==
  \A a \in Finished : LET r == Req(a) IN
    BalanceTooLow(r) => r.response = InsufficientError

\* C2: a request whose balance read is lower than the amount ends in failure
\* without reading the nonce, building, signing or broadcasting: the node
\* records no send_raw_transaction call and accepts nothing from it.
C2_NoBroadcastWhenInsufficient ==
  \A a \in Requests : LET r == Req(a) IN
    BalanceTooLow(r) =>
      /\ r.pc = "Failed"
      /\ ~Ran(r, "get_transaction_count")
      /\ ~Ran(r, "build_transaction")
      /\ ~Ran(r, "sign_transaction")
      /\ ~Ran(r, "send_raw_transaction")
      /\ r.sent = <<>>
      /\ NothingAcceptedFrom(r)

C2_Witness ==
  \E a \in Finished : LET r == Req(a) IN
    BalanceTooLow(r) /\ r.pc = "Failed" /\ Ran(r, "balanceOf")

\* C3: a request whose recipient is not a well-formed address fails at address
\* normalization, and no balance read, nonce read or broadcast is issued for it.
C3_MalformedFailsBeforeNodeCalls ==
  \A a \in Requests : LET r == Req(a) IN
    (Malformed(r) /\ r.pc # "Validating") =>
      /\ r.pc = "Failed"
      /\ r.exc.type = "ValueError"
      /\ \A i \in 1..Len(r.trace) : r.trace[i].step \notin NodeCalls
      /\ r.sent = <<>>
      /\ NothingAcceptedFrom(r)

C3_Witness ==
  \E a \in Finished : LET r == Req(a) IN
    Malformed(r) /\ r.trace = <<[step |-> "to_checksum_address", ok |-> FALSE]>>

\* C4 (as stated): a request whose recipient is not a well-formed address is
\* answered with a 4xx status, different from the answer to a server fault.
C4_MalformedIsClientError ==
  \A a \in Finished : LET r == Req(a) IN
    Malformed(r) => r.response.code \in 400..499 /\ r.response # GenericError

\* C4 (amended): a request whose recipient is not a well-formed address is
\* answered with HTTP 500 and detail "Internal server error.", the same
\* response that a failed node call gets.
C4_MalformedIsGenericError ==
  \A a \in Finished : LET r == Req(a) IN
    Malformed(r) =>
      /\ r.response = GenericError
      /\ \A b \in Finished : LET q == Req(b) IN
           (CallFailed(q, "balanceOf") \/ CallFailed(q, "get_transaction_count")
              \/ CallFailed(q, "send_raw_transaction"))
             => q.response = r.response

C4_Witness ==
  \E a, b \in Finished : LET r == Req(a) q == Req(b) IN
    /\ Malformed(r) /\ r.response = GenericError
    /\ CallFailed(q, "get_transaction_count") /\ q.response = GenericError

\* C5: the nonce of the transaction a request broadcasts is the value returned
\* by that request's own transaction-count read, made once and immediately
\* before the build, and it is used for exactly one broadcast of the request.
C5_NonceIsOwnRead ==
  \A a \in Requests : LET r == Req(a) IN
    /\ \A i \in 1..Len(r.sent) : r.sent[i].tx.nonce = r.txcount_ret
    /\ \A t \in pool \cup mined : t.req = r.id => t.tx.nonce = r.txcount_ret
    /\ r.pc = "Succeeded" =>
         /\ Len(r.sent) = 1
         /\ Count(r.trace, "get_transaction_count") = 1
         /\ \E i \in 1..(Len(r.trace) - 1) :
              /\ r.trace[i] = [step |-> "get_transaction_count", ok |-> TRUE]
              /\ r.trace[i + 1].step = "build_transaction"

C5_Witness ==
  \E a \in Finished : LET r == Req(a) IN
    r.pc = "Succeeded" /\ r.txcount_ret = 1 /\ r.sent[1].tx.nonce = 1

\* C6 (as stated): two sequential successful transfers never broadcast
\* transactions carrying the same nonce.
C6_SequentialNoncesDiffer ==
  \A i, j \in 1..Len(done) :
    (i < j /\ done[i].pc = "Succeeded" /\ done[j].pc = "Succeeded")
      => done[i].sent[1].tx.nonce # done[j].sent[1].tx.nonce

\* C6 (amended): two sequential successful transfers broadcast different
\* nonces whenever the node reported a different transaction count to the
\* second request's nonce read than to the first's.
C6_NoncesDifferWhenCountAdvanced ==
  \A i, j \in 1..Len(done) :
    (/\ i < j
     /\ done[i].pc = "Succeeded" /\ done[j].pc = "Succeeded"
     /\ done[i].txcount_ret # done[j].txcount_ret)
      => /\ Len(done[i].sent) = 1 /\ Len(done[j].sent) = 1
         /\ done[i].sent[1].tx.nonce # done[j].sent[1].tx.nonce

C6_Witness ==
  \E i, j \in 1..Len(done) :
    /\ i < j
    /\ done[i].pc = "Succeeded" /\ done[j].pc = "Succeeded"
    /\ done[i].txcount_ret < done[j].txcount_ret
    /\ done[i].sent[1].tx.nonce < done[j].sent[1].tx.nonce

\* C7: a request issues at most one send_raw_transaction call, exactly one
\* when it returns success, and executes no step more than once.
C7_AtMostOneBroadcast ==
  \A a \in Requests : LET r == Req(a) IN
    /\ Len(r.sent) <= 1
    /\ Ran(r, "send_raw_transaction") <=> Len(r.sent) = 1
    /\ r.pc = "Succeeded" => Len(r.sent) = 1
    /\ \A i \in 1..Len(r.trace) : \A j \in (i + 1)..Len(r.trace) :
         r.trace[i].step # r.trace[j].step
    /\ \A i \in 1..Len(r.trace) : ~r.trace[i].ok => (i = Len(r.trace) /\ r.pc = "Failed")

C7_Witness ==
  \E a \in Finished : LET r == Req(a) IN
    /\ r.pc = "Failed"
    /\ CallFailed(r, "send_raw_transaction")
    /\ Len(r.sent) = 1

\* C8: every failure other than insufficient balance is answered with HTTP 500
\* and detail "Internal server error.", whichever step failed and whatever
\* the reason, and the exception text is not in the response.
C8_FailuresAreGeneric ==
  \A a \in Finished : LET r == Req(a) IN
    (r.pc = "Failed" /\ ~BalanceTooLow(r)) =>
      /\ r.response = GenericError
      /\ r.response.detail # r.exc.text
      /\ \A b \in Finished : LET q == Req(b) IN
           (q.pc = "Failed" /\ ~BalanceTooLow(q)) => q.response = r.response

C8_Witness ==
  \E a, b \in Finished : LET r == Req(a) q == Req(b) IN
    /\ r.exc.type = "BroadcastError" /\ r.exc.text = "nonce too low"
    /\ q.exc.type = "BroadcastError" /\ q.exc.text = "connection error"
    /\ r.response = q.response

\* C9: if the transaction-count read fails after the balance check passed, the
\* request ends with HTTP 500 and the generic detail, and nothing is built,
\* signed or broadcast for it.
C9_NonceReadFailure ==
  \A a \in Requests : LET r == Req(a) IN
    CallFailed(r, "get_transaction_count") =>
      /\ r.pc = "Failed"
      /\ r.response = GenericError
      /\ r.sender_balance >= FixedAmount(r)
      /\ r.txn = NoTxn
      /\ r.signed_txn = NoSigned
      /\ ~Ran(r, "build_transaction")
      /\ ~Ran(r, "sign_transaction")
      /\ ~Ran(r, "send_raw_transaction")
      /\ r.sent = <<>>
      /\ NothingAcceptedFrom(r)

C9_Witness ==
  \E a \in Finished : LET r == Req(a) IN
    /\ CallFailed(r, "get_transaction_count")
    /\ r.sender_balance >= FixedAmount(r)
    /\ r.response = GenericError

HealthyBody ==
  [raised |-> FALSE, keys |-> {"status", "rpc_connected"}, status |-> "healthy",
   rpc_connected |-> TRUE, error |-> ""]

C12_HealthAlwaysAnswers ==
  \A i \in 1..Len(health) : LET h == health[i] IN
    /\ ~h.response.raised
    /\ "status" \in h.response.keys
    /\ h.response = HealthyBody <=> h.connected = "true"
    /\ h.connected # "true" => h.response.status = "unhealthy"
    /\ \A k \in 1..Len(h.calls) : h.calls[k] \notin NodeCalls

C12_Witness ==
  \E i, j \in 1..Len(health) :
    /\ health[i].connected = "raise" /\ health[i].response.status = "unhealthy"
    /\ health[j].connected = "true" /\ health[j].response = HealthyBody

\* C13: a request is handled only if startup found the signing credential, the
\* contract address and a reachable node; when one is missing, startup fails
\* and nothing is ever served.
StartupComplete ==
  env.PRIVATE_KEY # "" /\ env.TOKEN_ADDRESS # <<>> /\ env.connected = "true"

C13_ServesOnlyAfterStartup ==
  /\ Received > 0 => StartupComplete
  /\ ~StartupComplete => serving = "failed"
  /\ serving = "failed" => Received = 0 /\ pool = {} /\ mined = {}

C13_Witness ==
  /\ serving = "failed"
  /\ env.PRIVATE_KEY = "key" /\ env.TOKEN_ADDRESS = LowerPrefixed
  /\ env.connected = "false"
  /\ Received = 0

\* requests i and j of done (i answered before j) were in flight at the same
\* time: j had been sent before i was answered
Overlap(i, j) == i < j /\ done[j].arrived_at < i
\* j was sent after i had been answered
Sequential(i, j) == i < j /\ done[j].arrived_at >= i
Broadcast(r) == r.sent # <<>>
Accepted(r) == \E t \in pool \cup mined : t.req = r.id

\* C14: two transfer requests in flight at the same time whose nonce reads got
\* the same count both broadcast a transaction carrying that nonce, and the
\* node does not keep both: one is rejected or takes the other's place.
C14_InFlightSameNonce ==
  \A i, j \in 1..Len(done) :
    (/\ Overlap(i, j)
     /\ Broadcast(done[i]) /\ Broadcast(done[j])
     /\ done[i].txcount_ret = done[j].txcount_ret)
      => /\ done[i].sent[1].tx.nonce = done[j].sent[1].tx.nonce
         /\ ~(Accepted(done[i]) /\ Accepted(done[j]))

C14_Witness ==
  \E i, j \in 1..Len(done) :
    /\ Overlap(i, j)
    /\ done[i].pc = "Succeeded"
    /\ Broadcast(done[j])
    /\ done[i].sent[1].tx.nonce = done[j].sent[1].tx.nonce
    /\ done[j].exc.text = "replacement transaction underpriced"

\* C15: no two requests are at the same time between their nonce read and the
\* completion of their broadcast call.
InCritical(r) == r.pc \in {"Building", "Signing", "Broadcasting"}

C15_CriticalSection ==
  \A r1, r2 \in running : r1 # r2 => ~(InCritical(r1) /\ InCritical(r2))

C15_Witness ==
  \E r \in running : InCritical(r) /\ waiting # <<>>

\* C16: a request goes through Validating, BalanceChecking, NonceFetching,
\* Building, Signing, Broadcasting in this order, without skipping or
\* revisiting a step, and ends in Succeeded or Failed; it broadcasts only after
\* its own normalization, its own sufficient balance read, its own nonce read
\* and signing.
Pipeline == <<"to_checksum_address", "balanceOf", "get_transaction_count",
              "build_transaction", "sign_transaction", "send_raw_transaction">>
States == <<"Validating", "BalanceChecking", "NonceFetching",
            "Building", "Signing", "Broadcasting">>

C16_StepsInOrder ==
  \A a \in Requests : LET r == Req(a) IN
    /\ Len(r.trace) <= Len(Pipeline)
    /\ \A i \in 1..Len(r.trace) : r.trace[i].step = Pipeline[i]
    /\ a = 0 => r.pc = States[Len(r.trace) + 1]
    /\ a # 0 => r.pc \in {"Succeeded", "Failed"}
    /\ r.pc = "Succeeded" => Len(r.trace) = Len(Pipeline)
    /\ Broadcast(r) =>
         /\ IsWellFormed(r.recipient)
         /\ r.recipient_address = ToChecksumAddress(r.recipient)
         /\ r.sender_balance = r.balance_ret /\ r.balance_ret >= FixedAmount(r)
         /\ r.nonce = r.txcount_ret /\ r.txcount_ret >= 0
         /\ \A i \in 1..5 : r.trace[i].ok
         /\ r.sent[1] = [tx |-> r.txn, from |-> SENDER_ADDRESS]

C16_Witness ==
  \E a \in Finished : LET r == Req(a) IN
    /\ a >= 2
    /\ r.pc = "Succeeded"
    /\ Len(r.trace) = Len(Pipeline)
    /\ r.balance_ret # Req(1).balance_ret
    /\ r.txcount_ret # Req(1).txcount_ret

\* C17: whenever a transfer request ends in failure, the node has
\* accepted no transaction from it.
C17_NoPartialSuccess ==
  \A a \in Finished : LET r == Req(a) IN
    r.pc = "Failed" => NothingAcceptedFrom(r)

\* The part of C17 that holds: a failed request left nothing at the node,
\* except when its failure is the broadcast call raising although the node
\* took the transaction (the node's response was lost).
C17_NoPartialSuccessUnlessLostResponse ==
  \A a \in Finished : LET r == Req(a) IN
    (r.pc = "Failed" /\ ~(r.exc.type = "BroadcastError" /\ r.exc.text = "read timeout"))
      => NothingAcceptedFrom(r)

C17_Witness ==
  \E a, b \in Finished : LET r == Req(a) q == Req(b) IN
    /\ r.pc = "Failed" /\ r.exc.type = "BroadcastError"
    /\ r.exc.text = "nonce too low" /\ NothingAcceptedFrom(r)
    /\ q.pc = "Failed" /\ q.exc.type = "SigningError" /\ NothingAcceptedFrom(q)

\* C18: a request passes the balance check exactly when the balance it read
\* covers its own amount; nothing is reserved for the transfers of other
\* requests, so two requests can both pass and broadcast although the sum of
\* their amounts exceeds the balance.
PassedCheck(r) == r.pc = "NonceFetching" \/ Ran(r, "get_transaction_count")

C18_BalanceCheckIsAdvisory ==
  \A a \in Requests : LET r == Req(a) IN
    (\E i \in 1..Len(r.trace) : r.trace[i] = [step |-> "balanceOf", ok |-> TRUE])
      => (PassedCheck(r) <=> r.balance_ret >= FixedAmount(r))

C18_Witness ==
  \E i, j \in 1..Len(done) :
    /\ i < j
    /\ done[i].pc = "Succeeded" /\ done[j].pc = "Succeeded"
    /\ done[i].balance_ret >= FixedAmount(done[i])
    /\ done[j].balance_ret >= FixedAmount(done[j])
    /\ done[i].balance_ret = done[j].balance_ret
    /\ FixedAmount(done[i]) + FixedAmount(done[j]) > done[j].balance_ret
    /\ Accepted(done[i]) /\ Accepted(done[j])

\* C19: the nonce is what the node reports at read time, with no local
\* increment: two requests run strictly one after the other whose nonce reads
\* got the same count broadcast transactions with the same nonce.
C19_SequentialSameNonce ==
  \A i, j \in 1..Len(done) :
    (/\ Sequential(i, j)
     /\ Broadcast(done[i]) /\ Broadcast(done[j])
     /\ done[i].txcount_ret = done[j].txcount_ret)
      => done[i].sent[1].tx.nonce = done[j].sent[1].tx.nonce

C19_Witness ==
  \E i, j \in 1..Len(done) :
    /\ Sequential(i, j)
    /\ done[i].pc = "Succeeded" /\ Accepted(done[i])
    /\ Broadcast(done[j])
    /\ done[i].txcount_ret = done[j].txcount_ret
    /\ done[i].sent[1].tx.nonce = done[j].sent[1].tx.nonce
====
